---- MODULE Spec2Model ----
(***************************************************************************)
(* A model of UnleashClient (src/src/index.ts): the toggle snapshot, the   *)
(* context, the init sequence behind the `ready` promise, start/stop of    *)
(* the polling timer and fetchToggles with its three suspension points.    *)
(* Every action is one continuation of the code: it runs from one await    *)
(* (or from the call) to the next await (or to the return).                *)
(***************************************************************************)
EXTENDS FiniteSets, Integers, Sequences, TLC

\* ------------------------------------------------------------------ bounds
\* start(), stop(), updateContext() and setContextField() calls and timer ticks
\* in one behaviour; each of them calls fetchToggles() at most once.
MaxCalls == 2

\* ------------------------------------------------------- JavaScript values
Undefined == [t |-> "undefined"]
Arr(s) == [t |-> "array", v |-> s]
IsArr(x) == x.t = "array"

\* `a || b` for a value that is undefined or an array (an array is truthy).
OrElse(a, b) == IF a = Undefined THEN b ELSE a

\* Object spread { ...a, ...b }: the keys of both, b's value where both have one.
Spread(a, b) ==
    [k \in (DOMAIN a) \cup (DOMAIN b) |-> IF k \in DOMAIN b THEN b[k] ELSE a[k]]

NoObj == [k \in {} |-> ""]

\* ------------------------------------------------------------ sample data
ToggleA == [name |-> "a", enabled |-> TRUE,
            variant |-> [name |-> "va", enabled |-> TRUE], impressionData |-> TRUE]
ToggleB == [name |-> "b", enabled |-> FALSE,
            variant |-> [name |-> "vb", enabled |-> FALSE], impressionData |-> FALSE]
ListB == <<ToggleA>>               \* the bootstrap set
ListC == <<ToggleB>>               \* the persisted cache
ListT1 == <<ToggleA, ToggleB>>     \* a response body
ListT2 == <<ToggleB, ToggleA>>     \* the same toggles in the other order
Names == {"a", "b", "c"}           \* "c" is in no list

\* ---------------------------------------------------------- src constants
DEFINED_FIELDS == {"userId", "sessionId", "remoteAddress"}
defaultVariant == [name |-> "disabled", enabled |-> FALSE]
storeKey == "repo"
EVENTS == [INIT |-> "initialized", ERROR |-> "error", READY |-> "ready",
           UPDATE |-> "update", IMPRESSION |-> "impression"]
IMPRESSION_EVENTS == [IS_ENABLED |-> "isEnabled", GET_VARIANT |-> "getVariant"]

\* this.emit(name) and this.emit(name, arg) as entries of an event log.
Emit(name) == [name |-> name]
EmitArg(name, arg) == [name |-> name, arg |-> arg]

VARIABLES
    toggles,            \* this.toggles: an array, or undefined
    context,            \* this.context: key -> value, present keys only
    timerRef,           \* this.timerRef: a timer id, 0 for undefined
    storage,            \* the storage provider's content: key -> value
    refreshInterval,    \* this.refreshInterval (ms)
    etag,               \* this.etag
    ready,              \* this.ready: "pending" or "resolved"
    fetch,              \* this.fetch is defined
    bootstrap,          \* this.bootstrap: an array, or undefined
    bootstrapOverride,  \* this.bootstrapOverride
    readyEventEmitted,  \* this.readyEventEmitted
    timers,             \* the runtime's live interval timers (ids)
    initc,              \* the init() call: position, session id in hand, events
    starts,             \* the start() calls so far, in call order
    fetches,            \* the fetchToggles() calls so far, in call order
    updates,            \* the updateContext() calls so far, in call order
    calls,              \* how many calls and ticks there were
    stopped             \* stop() was called, and start() not since

vars == <<toggles, context, timerRef, storage, refreshInterval, etag, ready, fetch,
          bootstrap, bootstrapOverride, readyEventEmitted, timers, initc, starts,
          fetches, updates, calls, stopped>>

config == <<refreshInterval, fetch, bootstrap, bootstrapOverride>>

\* ------------------------------------------------------------ storage port
\* IStorageProvider.get(key): the stored value, undefined when there is none.
StorageGet(store, key) == IF key \in DOMAIN store THEN store[key] ELSE Undefined
\* IStorageProvider.save(key, value).
StorageSave(store, key, value) == Spread(store, [k \in {key} |-> value])
Str(s) == [t |-> "string", v |-> s]
StorageFailure == [type |-> "StorageError"]

\* ------------------------------------------------------------ construction
\* Lines 137 and 162-163: an empty bootstrap list counts as none.
NormalBootstrap(b) == IF b # Undefined /\ Len(b.v) > 0 THEN b ELSE Undefined

\* Line 143.
IntervalMs(disableRefresh, seconds) == IF disableRefresh THEN 0 ELSE seconds * 1000

\* Line 146: init() runs up to its first await inside the constructor. With a
\* session id in the context resolveSessionId returns at once (line 301) and
\* init waits for that promise; otherwise it waits for storage.get('sessionId').
InitCall(ctx) ==
    IF "sessionId" \in DOMAIN ctx
    THEN [pc |-> "haveSessionId", sessionId |-> ctx["sessionId"], events |-> <<>>,
          rejected |-> "none"]
    ELSE [pc |-> "getSessionId", sessionId |-> "", events |-> <<>>,
          rejected |-> "none"]

\* The constructor's arguments that are tried. The init sequence is run for
\* every bootstrap, override flag, cache and session id; a client without a
\* transport and one without refresh are built with the other defaults.
Arguments ==
    [bootstrap : {Undefined, Arr(<<>>), Arr(ListB)}, bootstrapOverride : BOOLEAN,
     disableRefresh : {FALSE}, fetch : {TRUE},
     context : {NoObj, [sessionId |-> "s0"]}]
    \cup
    [bootstrap : {Undefined}, bootstrapOverride : {TRUE},
     disableRefresh : BOOLEAN, fetch : BOOLEAN, context : {NoObj}]

Init ==
    \E args \in Arguments,
       repoIn \in {Undefined, Arr(ListC)},
       sidIn \in {Undefined, Str("s1")} :
        \* the override flag is read only with a bootstrap, and the stored
        \* session id only without one in the context
        /\ NormalBootstrap(args.bootstrap) = Undefined => args.bootstrapOverride
        /\ "sessionId" \in DOMAIN args.context => sidIn = Undefined
        /\ ~args.fetch \/ args.disableRefresh => repoIn = Undefined /\ sidIn = Undefined
        /\ toggles = OrElse(NormalBootstrap(args.bootstrap), Arr(<<>>))
        /\ context = Spread([appName |-> "app", environment |-> "default"],
                            args.context)
        /\ timerRef = 0
        /\ storage = [k \in {storeKey, "sessionId"} |->
                        IF k = storeKey THEN repoIn ELSE sidIn]
        /\ refreshInterval = IntervalMs(args.disableRefresh, 30)
        /\ etag = ""
        /\ ready = "pending"
        /\ fetch = args.fetch
        /\ bootstrap = NormalBootstrap(args.bootstrap)
        /\ bootstrapOverride = args.bootstrapOverride
        /\ readyEventEmitted = FALSE
        /\ timers = {}
        /\ initc = InitCall(context)
        /\ starts = <<>>
        /\ fetches = <<>>
        /\ updates = <<>>
        /\ calls = 0
        /\ stopped = FALSE

\* ------------------------------------------------------------------ init()
\* Lines 148-152 without the resolve() of line 151.
InitFailedUnresolved(error) ==
    /\ initc' = [initc EXCEPT !.pc = "failed", !.rejected = initc.pc,
                              !.events = Append(@, EmitArg(EVENTS.ERROR, error))]
    /\ UNCHANGED ready
\* Lines 148-152: init() rejected at the await it was in; the constructor's
\* catch emits the error and resolves the ready promise.
InitFailed(error) ==
    /\ initc' = [initc EXCEPT !.pc = "failed", !.rejected = initc.pc,
                              !.events = Append(@, EmitArg(EVENTS.ERROR, error))]
    /\ ready' = "resolved"

\* Line 258, then line 260 up to its await: the session id goes under the
\* context's own keys, and the cache is asked for.
InitMergeSessionId(sessionId) ==
    /\ context' = Spread([sessionId |-> sessionId], context)
    /\ initc' = [initc EXCEPT !.pc = "getRepo", !.sessionId = sessionId]

\* Line 257 resumes with the session id the context already had.
InitHaveSessionId ==
    /\ initc.pc = "haveSessionId"
    /\ InitMergeSessionId(initc.sessionId)
    /\ UNCHANGED <<toggles, timerRef, storage, etag, ready, config,
                   readyEventEmitted, timers, starts, fetches, updates, calls, stopped>>

\* Line 303 settles. A stored id is returned (line 308); without one a new id
\* is generated and saved (lines 305-306).
InitGetSessionId ==
    /\ initc.pc = "getSessionId"
    /\ \E ok \in BOOLEAN :
        IF ~ok
        THEN InitFailed(StorageFailure) /\ UNCHANGED context
        ELSE LET sessionId == StorageGet(storage, "sessionId") IN
             IF sessionId = Undefined
             THEN /\ initc' = [initc EXCEPT !.pc = "saveSessionId",
                                            !.sessionId = "generated"]
                  /\ UNCHANGED <<context, ready>>
             ELSE InitMergeSessionId(sessionId.v) /\ UNCHANGED ready
    /\ UNCHANGED <<toggles, timerRef, storage, etag, config, readyEventEmitted,
                   timers, starts, fetches, updates, calls, stopped>>

\* Line 306 settles.
InitSaveSessionId ==
    /\ initc.pc = "saveSessionId"
    /\ \E ok \in BOOLEAN :
        IF ~ok
        THEN InitFailed(StorageFailure) /\ UNCHANGED <<context, storage>>
        ELSE /\ storage' = StorageSave(storage, "sessionId", Str(initc.sessionId))
             /\ InitMergeSessionId(initc.sessionId)
             /\ UNCHANGED ready
    /\ UNCHANGED <<toggles, timerRef, etag, config, readyEventEmitted, timers,
                   starts, fetches, updates, calls, stopped>>

\* Lines 262-265: whether the bootstrap is applied over what the cache gave.
BootstrapApplies(loaded) ==
    bootstrap # Undefined /\ (bootstrapOverride \/ Len(loaded.v) = 0)

\* Line 260 settles; lines 262-270 up to the await of line 266.
InitGetRepo ==
    /\ initc.pc = "getRepo"
    /\ \E ok \in BOOLEAN :
        IF ~ok
        THEN InitFailed(StorageFailure) /\ UNCHANGED toggles
        ELSE LET loaded == OrElse(StorageGet(storage, storeKey), Arr(<<>>)) IN
             /\ toggles' = loaded
             /\ IF BootstrapApplies(loaded)
                THEN /\ initc' = [initc EXCEPT !.pc = "saveBootstrap"]
                     /\ UNCHANGED ready
                ELSE /\ initc' = [initc EXCEPT !.pc = "done",
                                    !.events = Append(@, Emit(EVENTS.INIT))]
                     /\ ready' = "resolved"
    /\ UNCHANGED <<context, timerRef, storage, etag, config, readyEventEmitted,
                   timers, starts, fetches, updates, calls, stopped>>

\* Line 266 settles; lines 267-270, and the ready promise resolves (line 147).
InitSaveBootstrap ==
    /\ initc.pc = "saveBootstrap"
    /\ \E ok \in BOOLEAN :
        IF ~ok
        THEN InitFailed(StorageFailure) /\ UNCHANGED <<toggles, storage>>
        ELSE /\ storage' = StorageSave(storage, storeKey, bootstrap)
             /\ toggles' = bootstrap
             /\ initc' = [initc EXCEPT !.pc = "done",
                            !.events = @ \o <<Emit(EVENTS.READY), Emit(EVENTS.INIT)>>]
             /\ ready' = "resolved"
    /\ UNCHANGED <<context, timerRef, etag, config, readyEventEmitted, timers,
                   starts, fetches, updates, calls, stopped>>

InitStep ==
    \/ InitHaveSessionId
    \/ InitGetSessionId
    \/ InitSaveSessionId
    \/ InitGetRepo
    \/ InitSaveBootstrap

\* ----------------------------------------------------------- fetchToggles()
\* What the transport can answer. A body is read only by response.json().
NoHeader == "null"                       \* headers.get('ETag') found nothing
NoBody == [t |-> "none"]
InvalidJson == [t |-> "invalid"]         \* response.json() rejects
JsonNull == [t |-> "null"]               \* the body is the JSON value null
Json(tgl) == [t |-> "object", toggles |-> tgl]
NetworkFailure == [type |-> "NetworkError"]
SyntaxFailure == [type |-> "SyntaxError"]
TypeFailure == [type |-> "TypeError"]
Rejected == [kind |-> "rejected", error |-> NetworkFailure]
Http(ok, status, header, body) ==
    [kind |-> "response", ok |-> ok, status |-> status, etag |-> header, body |-> body]
NoResponse == [kind |-> "none"]

Responses ==
    { Rejected,
      Http(FALSE, 304, NoHeader, NoBody),
      Http(FALSE, 500, NoHeader, NoBody),
      Http(TRUE, 200, "e1", Json(Arr(ListT1))),
      Http(TRUE, 200, "e2", Json(Arr(ListT2))),
      Http(TRUE, 200, NoHeader, Json(Undefined)),
      Http(TRUE, 200, "e1", InvalidJson),
      Http(TRUE, 200, "e2", JsonNull) }

\* Lines 339-357: the context as query parameters, one (name, value) pair per
\* defined field, the properties flattened to properties[<key>].
Query(ctx) ==
    { <<<<k>>, ctx[k]>> : k \in (DOMAIN ctx) \ {"properties"} }
    \cup (IF "properties" \in DOMAIN ctx
          THEN { <<<<"properties", p>>, ctx["properties"][p]>> :
                    p \in DOMAIN ctx["properties"] }
          ELSE {})

\* Lines 312-318: the header that carries the revision marker.
NoRequest == [sent |-> FALSE]
Request(ctx) == [sent |-> TRUE, query |-> Query(ctx), ifNoneMatch |-> etag]

\* Lines 332-361: a call of fetchToggles() up to its first await; req is the
\* request in flight. Without a transport the call does nothing.
FetchCall(ctx) ==
    IF fetch
    THEN [pc |-> "awaitResponse", req |-> Request(ctx), resp |-> NoResponse,
          events |-> <<>>]
    ELSE [pc |-> "done", req |-> NoRequest, resp |-> NoResponse, events |-> <<>>]

\* Lines 380-383: the catch of fetchToggles.
FetchCaught(f, error) ==
    [f EXCEPT !.pc = "done", !.req = NoRequest,
              !.events = Append(@, EmitArg(EVENTS.ERROR, error))]

\* Line 362.
IsFresh(r) == r.ok /\ r.status # 304
\* Line 371 without its status test.
IsHttpErrorNo304(r) == ~r.ok
\* Line 371.
IsHttpError(r) == ~r.ok /\ r.status # 304
\* Line 363.
HeaderOrEmpty(h) == IF h = NoHeader THEN "" ELSE h
\* Lines 375-378 with the code left at 0 instead of the response's status.
HttpErrorNoStatus(status) == [type |-> "HttpError", code |-> 0]
\* Lines 375-378.
HttpError(status) == [type |-> "HttpError", code |-> status]

\* Line 363: the marker after a fresh response.
EtagAfter(r) == HeaderOrEmpty(r.etag)

\* Lines 371-379: what fetchToggles emits for a response that is not fresh.
EventsOfStale(r) ==
    IF IsHttpError(r) THEN <<EmitArg(EVENTS.ERROR, HttpError(r.status))>> ELSE <<>>

\* Line 358 settles with the response r (or rejects); lines 362-363 up to the
\* await of line 364, or lines 371-379.
FetchResponse(k, r) ==
    /\ fetches[k].pc = "awaitResponse"
    /\ IF r.kind = "rejected"
       THEN /\ fetches' = [fetches EXCEPT ![k] = FetchCaught([@ EXCEPT !.resp = r],
                                                               r.error)]
            /\ UNCHANGED etag
       ELSE IF IsFresh(r)
       THEN /\ etag' = EtagAfter(r)
            /\ fetches' = [fetches EXCEPT ![k].pc = "awaitJson", ![k].resp = r,
                                          ![k].req = NoRequest]
       ELSE /\ fetches' = [fetches EXCEPT ![k].pc = "done", ![k].resp = r,
                                ![k].req = NoRequest,
                                ![k].events = @ \o EventsOfStale(r)]
            /\ UNCHANGED etag
    /\ UNCHANGED <<toggles, context, timerRef, storage, ready, config,
                   readyEventEmitted, timers, initc, starts, updates, calls, stopped>>

\* Lines 326-327: what storeToggles emits before its await.
EventsOfStore == <<Emit(EVENTS.UPDATE)>>

\* Line 326 storing the list back to front.
StoredSnapshotReversed(tgl) ==
    IF IsArr(tgl) THEN Arr([i \in 1..Len(tgl.v) |-> tgl.v[Len(tgl.v) + 1 - i]]) ELSE tgl
\* Lines 325-327: storeToggles up to its await: the snapshot it leaves.
StoredSnapshot(tgl) == tgl

\* Line 364 settles; line 365 up to the await in storeToggles (line 328).
FetchJson(k) ==
    /\ fetches[k].pc = "awaitJson"
    /\ LET body == fetches[k].resp.body IN
        IF body = InvalidJson
        THEN /\ fetches' = [fetches EXCEPT ![k] = FetchCaught(@, SyntaxFailure)]
             /\ UNCHANGED toggles
        ELSE IF body = JsonNull
        THEN /\ fetches' = [fetches EXCEPT ![k] = FetchCaught(@, TypeFailure)]
             /\ UNCHANGED toggles
        ELSE /\ toggles' = StoredSnapshot(body.toggles)
             /\ fetches' = [fetches EXCEPT ![k].pc = "awaitSave",
                                           ![k].events = @ \o EventsOfStore]
    /\ UNCHANGED <<context, timerRef, storage, etag, ready, config,
                   readyEventEmitted, timers, initc, starts, updates, calls, stopped>>

\* Line 367 without the latch.
FirstReadyUnlatched == bootstrap = Undefined
\* Line 367.
FirstReady == bootstrap = Undefined /\ ~readyEventEmitted

\* Line 328 settles; lines 367-370.
FetchSaved(k) ==
    /\ fetches[k].pc = "awaitSave"
    /\ \E ok \in BOOLEAN :
        IF ~ok
        THEN /\ fetches' = [fetches EXCEPT ![k] = FetchCaught(@, StorageFailure)]
             /\ UNCHANGED <<storage, readyEventEmitted>>
        ELSE /\ storage' = StorageSave(storage, storeKey, fetches[k].resp.body.toggles)
             /\ IF FirstReady
                THEN /\ fetches' = [fetches EXCEPT ![k].pc = "done",
                            ![k].events = Append(@, Emit(EVENTS.READY))]
                     /\ readyEventEmitted' = TRUE
                ELSE /\ fetches' = [fetches EXCEPT ![k].pc = "done"]
                     /\ UNCHANGED readyEventEmitted
    /\ UNCHANGED <<toggles, context, timerRef, etag, ready, config, timers, initc,
                   starts, updates, calls, stopped>>

FetchStep ==
    \E k \in 1..Len(fetches) :
        \/ \E r \in Responses : FetchResponse(k, r)
        \/ FetchJson(k)
        \/ FetchSaved(k)

\* ------------------------------------------------------------ start / stop
CanCall == calls < MaxCalls

\* Lines 274-280: start() up to the await of the ready promise, or its early
\* return with the diagnostic.
StartCall ==
    IF timerRef # 0 THEN [pc |-> "refused", fetch |-> 0]
    ELSE [pc |-> "awaitReady", fetch |-> 0]

Start ==
    /\ CanCall
    /\ calls' = calls + 1
    /\ stopped' = FALSE
    /\ starts' = Append(starts, StartCall)
    /\ UNCHANGED <<toggles, context, timerRef, storage, etag, ready, config,
                   readyEventEmitted, timers, initc, fetches, updates>>

\* Lines 281-284 without the await of the ready promise (line 280).
StartNoWait(i) ==
    /\ starts[i].pc = "awaitReady"
    /\ fetches' = Append(fetches, FetchCall(context))
    /\ starts' = [starts EXCEPT ![i] = [pc |-> "awaitFetch", fetch |-> Len(fetches) + 1]]
    /\ UNCHANGED <<toggles, context, timerRef, storage, etag, ready, config,
                   readyEventEmitted, timers, initc, updates, calls, stopped>>
\* Line 280 settles; lines 281-284 up to the await of fetchToggles().
StartReady(i) ==
    /\ starts[i].pc = "awaitReady"
    /\ ready = "resolved"
    /\ fetches' = Append(fetches, FetchCall(context))
    /\ starts' = [starts EXCEPT ![i] = [pc |-> "awaitFetch", fetch |-> Len(fetches) + 1]]
    /\ UNCHANGED <<toggles, context, timerRef, storage, etag, ready, config,
                   readyEventEmitted, timers, initc, updates, calls, stopped>>

\* Line 284 settles; lines 286-288. The timer of the i-th start() call has id i.
StartFetched(i) ==
    /\ starts[i].pc = "awaitFetch"
    /\ fetches[starts[i].fetch].pc = "done"
    /\ starts' = [starts EXCEPT ![i].pc = "done"]
    /\ IF refreshInterval > 0
       THEN timers' = timers \cup {i} /\ timerRef' = i
       ELSE UNCHANGED <<timers, timerRef>>
    /\ UNCHANGED <<toggles, context, storage, etag, ready, config,
                   readyEventEmitted, initc, fetches, updates, calls, stopped>>

\* Lines 291-297.
Stop ==
    /\ CanCall
    /\ calls' = calls + 1
    /\ IF timerRef # 0
       THEN timers' = timers \ {timerRef} /\ timerRef' = 0
       ELSE UNCHANGED <<timers, timerRef>>
    /\ stopped' = TRUE
    /\ UNCHANGED <<toggles, context, storage, etag, ready, config,
                   readyEventEmitted, initc, starts, fetches, updates>>

\* Line 287: a live interval timer fires and calls fetchToggles().
TimerTick(t) ==
    /\ t \in timers
    /\ CanCall
    /\ calls' = calls + 1
    /\ fetches' = Append(fetches, FetchCall(context))
    /\ UNCHANGED <<toggles, context, timerRef, storage, etag, ready, config,
                   readyEventEmitted, timers, initc, starts, updates, stopped>>

\* ---------------------------------------------------------------- context
Payloads ==
    { [userId |-> "x"],
      [appName |-> "evil"],
      [environment |-> "evil", userId |-> "x"],
      [sessionId |-> "s9", properties |-> [p |-> "1"]] }
Fields == {"userId", "appName", "p"}

\* Lines 230-234.
UpdatedContext(ctx, payload) ==
    LET staticContext == [environment |-> ctx["environment"],
                          appName |-> ctx["appName"]]
    IN  Spread(staticContext, payload)

\* Line 225: the diagnostic.
Warns(payload) == "appName" \in DOMAIN payload \/ "environment" \in DOMAIN payload

\* Lines 222-236: updateContext() up to its await, or to its return.
UpdateContext(payload) ==
    /\ CanCall
    /\ calls' = calls + 1
    /\ context' = UpdatedContext(context, payload)
    /\ IF timerRef # 0
       THEN /\ fetches' = Append(fetches, FetchCall(context'))
            /\ updates' = Append(updates, [pc |-> "awaitFetch",
                                fetch |-> Len(fetches) + 1, warned |-> Warns(payload)])
       ELSE /\ updates' = Append(updates, [pc |-> "done", fetch |-> 0,
                                warned |-> Warns(payload)])
            /\ UNCHANGED fetches
    /\ UNCHANGED <<toggles, timerRef, storage, etag, ready, config,
                   readyEventEmitted, timers, initc, starts, stopped>>

\* Line 236 without the await: updateContext() returns at once.
UpdateResolvedEarly(j) ==
    /\ updates[j].pc = "awaitFetch"
    /\ updates' = [updates EXCEPT ![j].pc = "done"]
    /\ UNCHANGED <<toggles, context, timerRef, storage, etag, ready, config,
                   readyEventEmitted, timers, initc, starts, fetches, calls,
                   stopped>>
\* Line 236 settles.
UpdateFetched(j) ==
    /\ updates[j].pc = "awaitFetch"
    /\ fetches[updates[j].fetch].pc = "done"
    /\ updates' = [updates EXCEPT ![j].pc = "done"]
    /\ UNCHANGED <<toggles, context, timerRef, storage, etag, ready, config,
                   readyEventEmitted, timers, initc, starts, fetches, calls,
                   stopped>>

\* Lines 245-250.
ContextWithField(ctx, field, value) ==
    IF field \in DEFINED_FIELDS
    THEN Spread(ctx, [k \in {field} |-> value])
    ELSE LET old == IF "properties" \in DOMAIN ctx THEN ctx["properties"] ELSE NoObj
             properties == Spread(old, [k \in {field} |-> value])
         IN  Spread(ctx, [k \in {"properties"} |-> properties])

\* Lines 244-254: the fetchToggles() call is not awaited.
SetContextField(field, value) ==
    /\ CanCall
    /\ calls' = calls + 1
    /\ context' = ContextWithField(context, field, value)
    /\ IF timerRef # 0
       THEN fetches' = Append(fetches, FetchCall(context'))
       ELSE UNCHANGED fetches
    /\ UNCHANGED <<toggles, timerRef, storage, etag, ready, config,
                   readyEventEmitted, timers, initc, starts, updates, stopped>>

\* -------------------------------------------------------------- evaluation
\* An evaluation call changes nothing of the client; what it does is what it
\* returns, the count it hands to the metrics collector and what it emits.
Thrown == [threw |-> TRUE]

\* this.toggles.find((t) => t.name === toggleName): the index, 0 for none.
Find(list, toggleName) ==
    LET hits == {i \in 1..Len(list) : list[i].name = toggleName}
    IN  IF hits = {} THEN 0 ELSE CHOOSE i \in hits : \A j \in hits : i <= j

\* Lines 182-198.
isEnabled(tgl, ctx, toggleName) ==
    IF ~IsArr(tgl) THEN Thrown
    ELSE LET i == Find(tgl.v, toggleName)
             enabled == IF i # 0 THEN tgl.v[i].enabled ELSE FALSE
         IN  [threw |-> FALSE, value |-> enabled, count |-> <<toggleName, enabled>>,
              events |-> IF i # 0 /\ tgl.v[i].impressionData
                         THEN <<EmitArg(EVENTS.IMPRESSION,
                                  [context |-> ctx, enabled |-> enabled,
                                   featureName |-> toggleName,
                                   eventType |-> IMPRESSION_EVENTS.IS_ENABLED])>>
                         ELSE <<>>]

\* Lines 200-220.
getVariant(tgl, ctx, toggleName) ==
    IF ~IsArr(tgl) THEN Thrown
    ELSE LET i == Find(tgl.v, toggleName) IN
         IF i # 0
         THEN [threw |-> FALSE, value |-> tgl.v[i].variant, count |-> <<toggleName, TRUE>>,
               events |-> IF tgl.v[i].impressionData
                          THEN <<EmitArg(EVENTS.IMPRESSION,
                                   [context |-> ctx, enabled |-> tgl.v[i].enabled,
                                    featureName |-> toggleName,
                                    eventType |-> IMPRESSION_EVENTS.GET_VARIANT,
                                    variant |-> tgl.v[i].variant.name])>>
                          ELSE <<>>]
         ELSE [threw |-> FALSE, value |-> defaultVariant,
               count |-> <<toggleName, FALSE>>, events |-> <<>>]

\* Lines 178-180.
getAllToggles(tgl) == IF ~IsArr(tgl) THEN Thrown ELSE [threw |-> FALSE, value |-> tgl.v]

IsEnabled(toggleName) ==
    /\ isEnabled(toggles, context, toggleName).threw \in BOOLEAN
    /\ UNCHANGED vars

GetVariant(toggleName) ==
    /\ getVariant(toggles, context, toggleName).threw \in BOOLEAN
    /\ UNCHANGED vars

GetAllToggles ==
    /\ getAllToggles(toggles).threw \in BOOLEAN
    /\ UNCHANGED vars

\* ------------------------------------------------------------ the program
Next ==
    \/ InitStep
    \/ FetchStep
    \/ Start
    \/ \E i \in 1..Len(starts) : StartReady(i) \/ StartFetched(i)
    \/ Stop
    \/ \E t \in timers : TimerTick(t)
    \/ \E payload \in Payloads : UpdateContext(payload)
    \/ \E j \in 1..Len(updates) : UpdateFetched(j)
    \/ \E field \in Fields : SetContextField(field, "v")
    \/ \E toggleName \in Names : IsEnabled(toggleName) \/ GetVariant(toggleName)
    \/ GetAllToggles

Spec == Init /\ [][Next]_vars

\* The continuations of init() and of a start() that waits for the ready promise
\* are run once they can be: a storage call settles, a resolved promise resumes
\* its awaiter.
FairSpec ==
    /\ Spec
    /\ WF_vars(InitStep)
    /\ \A i \in 1..MaxCalls : WF_vars(i <= Len(starts) /\ StartReady(i))

\* The behaviours in which stop() is never called.
NextNoStop ==
    \/ InitStep
    \/ FetchStep
    \/ Start
    \/ \E i \in 1..Len(starts) : StartReady(i) \/ StartFetched(i)
    \/ \E t \in timers : TimerTick(t)
    \/ \E payload \in Payloads : UpdateContext(payload)
    \/ \E j \in 1..Len(updates) : UpdateFetched(j)
    \/ \E field \in Fields : SetContextField(field, "v")
    \/ \E toggleName \in Names : IsEnabled(toggleName) \/ GetVariant(toggleName)
    \/ GetAllToggles

NoStopSpec == Init /\ [][NextNoStop]_vars

\* ------------------------------------------------------------------ claims
FetchIds == 1..Len(fetches)
Count(events, name) == Cardinality({i \in 1..Len(events) : events[i].name = name})
GotResponse(k) == fetches[k].resp.kind = "response"
\* No fetchToggles() call has replaced the snapshot.
NoStore == \A k \in FetchIds : Count(fetches[k].events, EVENTS.UPDATE) = 0

\* C1's case: an ok, non-304 response whose body is {toggles: T}.
C1_Case(k) ==
    /\ GotResponse(k)
    /\ fetches[k].resp.ok /\ fetches[k].resp.status # 304
    /\ fetches[k].resp.body.t = "object" /\ IsArr(fetches[k].resp.body.toggles)

C1_UpdateOnce ==
    \A k \in FetchIds : C1_Case(k) =>
        /\ Count(fetches[k].events, EVENTS.UPDATE) =
                IF fetches[k].pc \in {"awaitSave", "done"} THEN 1 ELSE 0
        /\ (fetches[k].pc \in {"awaitSave", "done"}
             /\ \A j \in FetchIds \ {k} : Count(fetches[j].events, EVENTS.UPDATE) = 0)
            => getAllToggles(toggles) =
                    [threw |-> FALSE, value |-> fetches[k].resp.body.toggles.v]

C1_Adopts ==
    \A k \in FetchIds :
        C1_Case(k) /\ fetches[k].pc = "awaitJson" /\ fetches'[k].pc = "awaitSave"
        => getAllToggles(toggles') =
                [threw |-> FALSE, value |-> fetches[k].resp.body.toggles.v]

\* C1: a synchronization that got an ok, non-304 response with body {toggles: T}
\* emits `update` exactly once, namely when it adopts T; getAllToggles() then
\* returns T in T's order, and still does when the synchronization is over
\* unless another synchronization has replaced the snapshot.
C1_SuccessfulSync == []C1_UpdateOnce /\ [][C1_Adopts]_vars

C1_Witness ==
    \E k \in FetchIds :
        /\ C1_Case(k) /\ fetches[k].pc = "done"
        /\ fetches[k].resp.body.toggles = Arr(ListT2)
        /\ toggles = Arr(ListT2)
        /\ fetches[k].events = <<Emit(EVENTS.UPDATE), Emit(EVENTS.READY)>>

\* C2's case: the response of call k is a 304.
C2_Case(k) == GotResponse(k) /\ fetches[k].resp.status = 304

C2_Handled ==
    \A k \in FetchIds :
        fetches[k].pc = "awaitResponse" /\ fetches'[k].resp.kind = "response"
        /\ fetches'[k].resp.status = 304
        => /\ toggles' = toggles /\ etag' = etag /\ storage' = storage
           /\ readyEventEmitted' = readyEventEmitted
           /\ fetches'[k].events = <<>> /\ fetches'[k].pc = "done"
           /\ initc' = initc

\* C2: the step that handles a 304 response leaves the snapshot, the etag and the
\* stored cache as they were and ends the synchronization, which has emitted
\* nothing (no `update`, `ready` or `error`).
C2_NotModified ==
    /\ [](\A k \in FetchIds : C2_Case(k) =>
            fetches[k].pc = "done" /\ fetches[k].events = <<>>)
    /\ [][C2_Handled]_vars

C2_Witness ==
    \E k \in FetchIds :
        /\ C2_Case(k) /\ fetches[k].pc = "done"
        /\ toggles = Arr(ListT1) /\ etag = "e1" /\ storage[storeKey] = Arr(ListT1)

\* C3: appName and environment are in every state the values given at
\* construction.
C3_StaticKept == context["appName"] = "app" /\ context["environment"] = "default"

\* C4: with no stop() call, at most one interval timer exists at any time.
C4_OneTimer == Cardinality(timers) <= 1

\* C5: with a bootstrap set and override, the snapshot is the bootstrap set once
\* the ready promise has resolved (and until a synchronization replaces it).
C5_BootstrapOverrides ==
    bootstrap # Undefined /\ bootstrapOverride /\ ready = "resolved" /\ NoStore
    => toggles = bootstrap

\* C6's case: a bootstrap set without override, the cache holding the list C.
C6_Case ==
    bootstrap # Undefined /\ ~bootstrapOverride /\ storage[storeKey] = Arr(ListC)

C6_CacheKept == C6_Case /\ initc' # initc => storage'[storeKey] = Arr(ListC)

\* init() was not refused the cache: the load of line 260 was not rejected.
C6_CacheReadable == ~(initc.pc = "failed" /\ initc.rejected = "getRepo")

\* C6: in that case, and unless the cache load itself was rejected, the snapshot
\* is C and not the bootstrap set once the ready promise has resolved (and until
\* a synchronization replaces it), and init() leaves the cache alone.
C6_CacheWins ==
    /\ [](C6_Case /\ C6_CacheReadable /\ ready = "resolved" /\ NoStore
            => toggles = Arr(ListC) /\ toggles # bootstrap)
    /\ [][C6_CacheKept]_vars

\* A name no toggle of the snapshot has.
Absent(toggleName) == ~IsArr(toggles) \/ Find(toggles.v, toggleName) = 0

\* C7: for a name absent from the snapshot isEnabled returns false, getVariant
\* returns the disabled variant, and neither emits an impression event.
C7_AbsentIsDisabled ==
    \A toggleName \in Names : Absent(toggleName) =>
        LET e == isEnabled(toggles, context, toggleName)
            v == getVariant(toggles, context, toggleName)
        IN  /\ ~e.threw /\ e.value = FALSE /\ e.events = <<>>
            /\ ~v.threw /\ v.value = [name |-> "disabled", enabled |-> FALSE]
            /\ v.events = <<>>

\* C8: the ready promise resolves, whatever init() meets; a failed init() has
\* emitted `error`; the promise is never rejected and stays resolved; a start()
\* waiting for it goes on.
C8_ReadyResolves ==
    /\ <>(ready = "resolved")
    /\ [](ready \in {"pending", "resolved"})
    /\ [](initc.pc = "failed" =>
            ready = "resolved"
            /\ initc.events = <<EmitArg(EVENTS.ERROR, StorageFailure)>>)
    /\ [][ready = "resolved" => ready' = "resolved"]_vars
    /\ \A i \in 1..MaxCalls :
            (i <= Len(starts) /\ starts[i].pc = "awaitReady")
                ~> (i <= Len(starts) /\ starts[i].pc # "awaitReady")

C8_Witness ==
    /\ initc.pc = "failed" /\ initc.rejected = "saveBootstrap"
    /\ ready = "resolved"
    /\ \E i \in 1..Len(starts) : starts[i].pc = "done"

\* C9's case: the response of call k is not ok and not a 304.
C9_Case(k) == GotResponse(k) /\ ~fetches[k].resp.ok /\ fetches[k].resp.status # 304

C9_Handled ==
    \A k \in FetchIds :
        fetches[k].pc = "awaitResponse" /\ fetches'[k].resp.kind = "response"
        /\ ~fetches'[k].resp.ok /\ fetches'[k].resp.status # 304
        => toggles' = toggles /\ etag' = etag /\ storage' = storage

\* C9: a synchronization whose response is neither ok nor a 304 has emitted one
\* event, `error` with {type: HttpError, code: <the status>}, and the step that
\* handles the response leaves the snapshot, the etag and the stored cache alone.
C9_HttpError ==
    /\ [](\A k \in FetchIds : C9_Case(k) =>
            /\ fetches[k].pc = "done"
            /\ fetches[k].events =
                    <<EmitArg(EVENTS.ERROR,
                        [type |-> "HttpError", code |-> fetches[k].resp.status])>>)
    /\ [][C9_Handled]_vars

C9_Witness ==
    \E k \in FetchIds :
        /\ C9_Case(k) /\ fetches[k].resp.status = 500
        /\ toggles = Arr(ListT1) /\ etag = "e1"

\* C10's case: the request was rejected, or the body of a fresh response is no
\* JSON or holds no toggle list.
C10_Case(k) ==
    \/ fetches[k].resp.kind = "rejected"
    \/ /\ GotResponse(k) /\ fetches[k].resp.ok /\ fetches[k].resp.status # 304
       /\ \/ fetches[k].resp.body \in {InvalidJson, JsonNull}
          \/ fetches[k].resp.body.t = "object" /\ ~IsArr(fetches[k].resp.body.toggles)

\* C10: a synchronization that met a transport-level failure ends having emitted
\* `error` and without having replaced the snapshot.
C10_TransportFailure ==
    \A k \in FetchIds : C10_Case(k) /\ fetches[k].pc = "done" =>
        /\ Count(fetches[k].events, EVENTS.ERROR) >= 1
        /\ Count(fetches[k].events, EVENTS.UPDATE) = 0

\* C11: in every state the snapshot is a toggle list, and isEnabled, getVariant
\* and getAllToggles return a value for every name.
C11_NeverThrows ==
    /\ IsArr(toggles)
    /\ ~getAllToggles(toggles).threw
    /\ \A toggleName \in Names :
        /\ ~isEnabled(toggles, context, toggleName).threw
        /\ ~getVariant(toggles, context, toggleName).threw

\* An updateContext(payload) step made while the timer is set.
C12_Call(payload) == timerRef # 0 /\ UpdateContext(payload)

C12_Immediate ==
    \A payload \in Payloads : C12_Call(payload) =>
        /\ Len(fetches') = Len(fetches) + 1
        /\ Len(updates') = Len(updates) + 1
        /\ updates'[Len(updates')].fetch = Len(fetches')
        /\ fetch => /\ fetches'[Len(fetches')].req.sent
                    /\ fetches'[Len(fetches')].pc = "awaitResponse"
                    /\ Query(payload) \subseteq fetches'[Len(fetches')].req.query
                    /\ fetches'[Len(fetches')].req.query = Query(context')

C12_Awaited ==
    \A j \in 1..Len(updates) :
        updates[j].fetch # 0 /\ updates[j].pc = "done"
        => fetches[updates[j].fetch].pc = "done"

\* C12: updateContext(payload) called while the timer is set calls fetchToggles()
\* in the same step; with a transport that call sends a request whose query
\* carries the payload's fields (and is the query of the new context); and the
\* updateContext call is over only when that fetchToggles() call is over.
C12_ImmediateSync == [][C12_Immediate]_vars /\ []C12_Awaited

C12_Witness ==
    \E j \in 1..Len(updates) :
        /\ updates[j].fetch # 0 /\ updates[j].pc = "done"
        /\ GotResponse(updates[j].fetch)
        /\ fetches[updates[j].fetch].resp.status = 200
        /\ "userId" \in DOMAIN context /\ context["userId"] = "x"

\* init() has put the session id into the context (line 258).
SessionIdPopulated ==
    \/ initc.pc \in {"getRepo", "saveBootstrap", "done"}
    \/ initc.pc = "failed" /\ initc.rejected \in {"getRepo", "saveBootstrap"}

\* A step that is an updateContext call whose payload names a session id.
C13_Supplied ==
    \E payload \in Payloads : "sessionId" \in DOMAIN payload /\ UpdateContext(payload)

C13_Step ==
    SessionIdPopulated /\ "sessionId" \in DOMAIN context /\ ~C13_Supplied
    => "sessionId" \in DOMAIN context' /\ context'["sessionId"] = context["sessionId"]

\* C13: once init() has put the session id into the context, every step other
\* than a call that supplies a session id leaves the context's session id as it
\* was.
C13_SessionIdStable == [][C13_Step]_vars

C14_Mutable == {"userId", "remoteAddress", "properties"}

C14_Merged(payload) ==
    /\ \A k \in (DOMAIN payload) \ {"appName", "environment"} :
            k \in DOMAIN context' /\ context'[k] = payload[k]
    /\ \A k \in (C14_Mutable \cap DOMAIN context) \ DOMAIN payload :
            k \in DOMAIN context' /\ context'[k] = context[k]

\* C14: an updateContext(payload) step gives every mutable field named in the
\* payload its new value and leaves userId, remoteAddress and properties as they
\* were when the payload does not name them.
C14_UpdateMerges ==
    [][\A payload \in Payloads : UpdateContext(payload) => C14_Merged(payload)]_vars

\* init() is over and has applied no bootstrap set: none was supplied, or one
\* was and lines 262-265 turned it down (no override, a cache that is not empty).
C15_NotApplied ==
    /\ initc.pc = "done"
    /\ Count(initc.events, EVENTS.READY) = 0

\* The fetchToggles() call k is over, got a fresh response with a toggle list,
\* stored it and met no failure.
C15_Succeeded(k) ==
    /\ fetches[k].pc = "done"
    /\ C1_Case(k)
    /\ Count(fetches[k].events, EVENTS.UPDATE) = 1
    /\ Count(fetches[k].events, EVENTS.ERROR) = 0

\* C15: when init() applied no bootstrap set and a synchronization has succeeded
\* with a body, `ready` has been emitted by a synchronization.
C15_FirstSyncReady ==
    C15_NotApplied /\ (\E k \in FetchIds : C15_Succeeded(k))
    => \E k \in FetchIds : Count(fetches[k].events, EVENTS.READY) >= 1

\* How often `ready` was emitted, by init() and by the fetchToggles() calls.
RECURSIVE ReadyBy(_)
ReadyBy(k) == IF k = 0 THEN 0
              ELSE Count(fetches[k].events, EVENTS.READY) + ReadyBy(k - 1)
ReadyCount == Count(initc.events, EVENTS.READY) + ReadyBy(Len(fetches))

\* C16: `ready` is emitted at most once, by init() or by one synchronization.
C16_ReadyOnce == ReadyCount <= 1

C16_Witness ==
    /\ Len(fetches) = 2
    /\ C15_Succeeded(1) /\ C15_Succeeded(2)
    /\ Len(starts) = 2 /\ starts[1].fetch = 1 /\ starts[2].fetch = 2
    /\ etag = "e1" /\ toggles = Arr(ListT2)
    /\ ReadyCount = 1

\* init() is over: it returned, or it failed and the constructor caught it.
InitOver == initc.pc \in {"done", "failed"} /\ ready = "resolved"

\* C17: a fetchToggles() call is made, and so a request sent, only when init()
\* is over.
C17_InitBeforeSync == Len(fetches) > 0 => InitOver

\* start() and updateContext({userId: x}) were both called while init() had not
\* yet merged the session id; the request went out after init().
C17_Witness ==
    /\ Len(starts) = 1 /\ Len(updates) = 1 /\ updates[1].fetch = 0
    /\ {"sessionId", "userId"} \subseteq DOMAIN context
    /\ Len(fetches) = 1 /\ fetches[1].req.sent
    /\ <<<<"userId">>, "x">> \in fetches[1].req.query
    /\ InitOver

\* The fetchToggles() call k took the marker from a fresh response and has
\* adopted that response's toggles, or is still reading its body.
C18_Source(k) ==
    /\ GotResponse(k) /\ IsFresh(fetches[k].resp)
    /\ etag = EtagAfter(fetches[k].resp)
    /\ \/ fetches[k].pc = "awaitJson"
       \/ Count(fetches[k].events, EVENTS.UPDATE) >= 1

\* C18: the marker is empty, or it is the marker of a fresh response whose
\* toggles were adopted as the snapshot (or whose body is still being read); a
\* synchronization that ended in an error without adopting anything has left
\* no marker behind.
C18_MarkerOfAdopted == etag = "" \/ \E k \in FetchIds : C18_Source(k)

\* C19: when no synchronization is in flight and every fresh response was
\* adopted without a failure, the marker and the snapshot are those of one
\* response.
C19_MarkerMatchesSnapshot ==
    /\ \A k \in FetchIds : fetches[k].pc = "done"
    /\ \A k \in FetchIds :
            GotResponse(k) /\ IsFresh(fetches[k].resp) => C15_Succeeded(k)
    /\ \E k \in FetchIds : C15_Succeeded(k)
    => \E k \in FetchIds :
            /\ C15_Succeeded(k)
            /\ etag = EtagAfter(fetches[k].resp)
            /\ toggles = fetches[k].resp.body.toggles

\* C20: after stop(), and until the next start() call, no interval timer is
\* live and timerRef is unset.
C20_StoppedNoTimer == stopped => timers = {} /\ timerRef = 0

====
